---- MODULE Spec2Model ----
(***************************************************************************)
(* State-machine model of the HALE Oracle escrow contracts:                *)
(*   - ArcFuseEscrow (guarded version, with nonReentrant, contract         *)
(*     details and the isExistingDepositor index),                         *)
(*   - ArcFuseEscrow (earlier, unguarded version),                         *)
(*   - Escrow (contracts/Escrow.sol).                                      *)
(* One transaction is one step.  A handler is an operator from the storage *)
(* before the call to a result: either a revert (storage as before) or the *)
(* storage after the call.  A value transfer runs the recipient's receive  *)
(* hook, which may accept, refuse, or call back into the contract.         *)
(***************************************************************************)
EXTENDS Integers, Sequences, FiniteSets, TLC

\* ---------------------------------------------------------------- universe
Zero == "0x0"
OracleAddr == "oracle"
OwnerAddr == "owner"
Sellers == {"sellerA", "sellerB"}
Addr == {Zero, "oracle", "sellerA", "sellerB", "buyer1", "buyer2", "buyer3"}
\* the accounts that send transactions: one seller with four possible
\* depositors, two sellers that can deposit for each other, or one seller
\* with two possible depositors
Populations == {{"oracle", "sellerA", "buyer1", "buyer2", "buyer3"},
                {"oracle", "sellerA", "sellerB"},
                {"oracle", "sellerA", "buyer1"}}
TxIds == {"tx1", "tx2"}

\* msg.value of a deposit
Values == {0, 1}
\* total native value the contract can hold (finite supply of the callers)
MaxBalance == 3

\* delivery hashes and block timestamps offered
HashArgs == {"", "h1"}
Timestamps == {7}

MAX_DEPOSITORS == 3
\* number of escrows the factory is asked to create
MaxEscrows == 3
\* number of escrows created, and native value they hold together, where
\* calls to the created escrows are followed
MaxSystemEscrows == 2
MaxSystemBalance == 1

VARIABLES
    variant,               \* which contract is deployed
    accounts,              \* the accounts that send transactions
    oracle, owner,
    deposits,              \* seller -> escrow balance
    depositorList,         \* seller -> sequence of DepositorInfo
    depositorCount,        \* seller -> number of depositors
    isExistingDepositor,   \* seller -> the depositors whose flag is true
    contractDetails,       \* seller -> ContractDetails
    releasedTransactions,  \* transaction id -> bool
    sellerTransactions,    \* seller -> sequence of ids (Escrow.sol)
    _locked,               \* reentrancy guard
    balance,               \* address(this).balance
    oracleAddress,         \* factory: oracle given to the escrows it creates
    allEscrows,            \* factory: addresses of the escrows created
    userEscrows,           \* factory: creator -> addresses of its escrows
    escrows,               \* address -> oracle and owner of a created escrow
    escrowStorage,         \* address -> storage of a created escrow
    last                   \* outcome of the last transaction

storageVars == <<oracle, owner, deposits, depositorList, depositorCount,
                 isExistingDepositor, contractDetails, releasedTransactions,
                 sellerTransactions, _locked, balance>>
factoryVars == <<oracleAddress, allEscrows, userEscrows, escrows>>
vars == <<variant, accounts, oracle, owner, deposits, depositorList,
          depositorCount, isExistingDepositor, contractDetails,
          releasedTransactions, sellerTransactions, _locked, balance,
          oracleAddress, allEscrows, userEscrows, escrows, escrowStorage,
          last>>

\* ------------------------------------------------------------------- types
DepositorInfo(d, a) == [depositor |-> d, amount |-> a]

NoDetails ==
    [requirements |-> "", sellerContact |-> "", deliveryHash |-> "",
     deliveryTime |-> 0, delivered |-> FALSE]

\* the contract storage as one value
Storage ==
    [oracle |-> oracle, owner |-> owner, deposits |-> deposits,
     depositorList |-> depositorList, depositorCount |-> depositorCount,
     isExistingDepositor |-> isExistingDepositor,
     contractDetails |-> contractDetails,
     releasedTransactions |-> releasedTransactions,
     sellerTransactions |-> sellerTransactions,
     _locked |-> _locked, balance |-> balance]

\* ----------------------------------------------------------------- helpers
RECURSIVE SumAmounts(_)
SumAmounts(list) ==
    IF list = <<>> THEN 0 ELSE Head(list).amount + SumAmounts(Tail(list))

DepositorsOf(list) == {list[i].depositor : i \in 1..Len(list)}

\* index of the first entry of sender in the list, 0 if none
FindDepositor(list, sender) ==
    IF \E i \in 1..Len(list) : list[i].depositor = sender
    THEN CHOOSE i \in 1..Len(list) :
            /\ list[i].depositor = sender
            /\ \A j \in 1..(i - 1) : list[j].depositor # sender
    ELSE 0

\* a transaction's result
Revert(st, reason) ==
    [ok |-> FALSE, reason |-> reason, st |-> st, transfers |-> <<>>,
     reentry |-> <<>>]
Done(st, transfers, reentry) ==
    [ok |-> TRUE, reason |-> "", st |-> st, transfers |-> transfers,
     reentry |-> reentry]

\* what a recipient's receive hook does
Accepting == [kind |-> "accept"]
Rejecting == [kind |-> "reject"]

\* a call back into the contract made from a receive hook
Reentering(c) == [kind |-> "reenter", call |-> c]

\* the values of a receive hook and of the contract storage
HookSet ==
    {Accepting, Rejecting}
    \cup [kind : {"reenter"}, call : [op : STRING, seller : Addr]]

StorageSet ==
    [oracle : Addr, owner : STRING, deposits : [Addr -> Nat],
     depositorList : [Addr -> Seq([depositor : Addr, amount : Nat])],
     depositorCount : [Addr -> Nat],
     isExistingDepositor : [Addr -> SUBSET Addr],
     contractDetails :
         [Addr -> [requirements : STRING, sellerContact : STRING,
                   deliveryHash : STRING, deliveryTime : Nat,
                   delivered : BOOLEAN]],
     releasedTransactions : [TxIds -> BOOLEAN],
     sellerTransactions : [Addr -> Seq(TxIds)],
     _locked : BOOLEAN, balance : Int]

\* (bool success, ) = payable(to).call{value: amount}("") to a recipient
\* whose hook accepts or refuses
PlainCallTo(st, to, amount, recv) ==
    IF recv.kind = "reject"
    THEN [success |-> FALSE, st |-> st, transfers |-> <<>>, reentry |-> <<>>]
    ELSE [success |-> TRUE, st |-> [st EXCEPT !.balance = @ - amount],
          transfers |-> <<>>, reentry |-> <<>>]

\* the same, as the function handed to a handler that makes the call
PlainCall ==
    [st \in StorageSet, to \in Addr, amount \in Nat, recv \in HookSet |->
        PlainCallTo(st, to, amount, recv)]

Transfer(to, amount, success) ==
    [to |-> to, amount |-> amount, success |-> success]

\* ------------------------------------------- ArcFuseEscrow (guarded version)
\* mutant: the depositor counts of all sellers are reset
_clearSellerData_allCounts(st, seller) ==
    [st EXCEPT
       !.isExistingDepositor[seller] =
           @ \ DepositorsOf(st.depositorList[seller]),
       !.depositorList[seller] = <<>>,
       !.depositorCount = [s \in Addr |-> 0],
       !.contractDetails[seller] = NoDetails]

\* mutant: the depositors' flags are not reset
_clearSellerData_keepsFlags(st, seller) ==
    [st EXCEPT
       !.depositorList[seller] = <<>>,
       !.depositorCount[seller] = 0,
       !.contractDetails[seller] = NoDetails]

\* mutant: the depositor list is not deleted
_clearSellerData_keepsList(st, seller) ==
    [st EXCEPT
       !.isExistingDepositor[seller] =
           @ \ DepositorsOf(st.depositorList[seller]),
       !.depositorCount[seller] = 0,
       !.contractDetails[seller] = NoDetails]

\* mutant: the contract details are not deleted
_clearSellerData_keepsDetails(st, seller) ==
    [st EXCEPT
       !.isExistingDepositor[seller] =
           @ \ DepositorsOf(st.depositorList[seller]),
       !.depositorList[seller] = <<>>,
       !.depositorCount[seller] = 0]

_clearSellerData(st, seller) ==
    [st EXCEPT
       !.isExistingDepositor[seller] =
           @ \ DepositorsOf(st.depositorList[seller]),
       !.depositorList[seller] = <<>>,
       !.depositorCount[seller] = 0,
       !.contractDetails[seller] = NoDetails]

\* mutant: the modifier lets every caller through
onlyOracle_open(st, sender) == TRUE

\* modifier onlyOracle: require(msg.sender == oracle, ...)
onlyOracle(st, sender) == sender = st.oracle

\* mutant: a 4th distinct depositor is appended
deposit_noLimit(st, sender, seller, value) ==
    IF st._locked THEN Revert(st, "Security: Reentrant call")
    ELSE IF ~(value > 0) THEN Revert(st, "Amount: Must be > 0")
    ELSE IF seller = Zero THEN Revert(st, "Address: Invalid seller")
    ELSE IF seller = sender
    THEN Revert(st, "Auth: Seller cannot self-deposit")
    ELSE
    LET s1 == [st EXCEPT !.balance = @ + value,
                         !.deposits[seller] = @ + value]
        i  == FindDepositor(s1.depositorList[seller], sender)
    IN  IF sender \in s1.isExistingDepositor[seller]
        THEN Done(IF i = 0 THEN s1
                  ELSE [s1 EXCEPT !.depositorList[seller][i].amount =
                                      @ + value],
                  <<>>, <<>>)
        ELSE Done([s1 EXCEPT
                     !.depositorList[seller] =
                         Append(@, DepositorInfo(sender, value)),
                     !.isExistingDepositor[seller] = @ \cup {sender},
                     !.depositorCount[seller] = @ + 1],
                  <<>>, <<>>)

\* mutant: the seller may deposit into its own vault
deposit_selfDeposit(st, sender, seller, value) ==
    IF st._locked THEN Revert(st, "Security: Reentrant call")
    ELSE IF ~(value > 0) THEN Revert(st, "Amount: Must be > 0")
    ELSE IF seller = Zero THEN Revert(st, "Address: Invalid seller")
    ELSE
    LET s1 == [st EXCEPT !.balance = @ + value,
                         !.deposits[seller] = @ + value]
        i  == FindDepositor(s1.depositorList[seller], sender)
    IN  IF sender \in s1.isExistingDepositor[seller]
        THEN Done(IF i = 0 THEN s1
                  ELSE [s1 EXCEPT !.depositorList[seller][i].amount =
                                      @ + value],
                  <<>>, <<>>)
        ELSE IF ~(s1.depositorCount[seller] < MAX_DEPOSITORS)
        THEN Revert(st, "Limit: Max 3 depositors reached")
        ELSE Done([s1 EXCEPT
                     !.depositorList[seller] =
                         Append(@, DepositorInfo(sender, value)),
                     !.isExistingDepositor[seller] = @ \cup {sender},
                     !.depositorCount[seller] = @ + 1],
                  <<>>, <<>>)

\* mutant: a new depositor is not flagged
deposit_noFlag(st, sender, seller, value) ==
    IF st._locked THEN Revert(st, "Security: Reentrant call")
    ELSE IF ~(value > 0) THEN Revert(st, "Amount: Must be > 0")
    ELSE IF seller = Zero THEN Revert(st, "Address: Invalid seller")
    ELSE IF seller = sender
    THEN Revert(st, "Auth: Seller cannot self-deposit")
    ELSE
    LET s1 == [st EXCEPT !.balance = @ + value,
                         !.deposits[seller] = @ + value]
        i  == FindDepositor(s1.depositorList[seller], sender)
    IN  IF sender \in s1.isExistingDepositor[seller]
        THEN Done(IF i = 0 THEN s1
                  ELSE [s1 EXCEPT !.depositorList[seller][i].amount =
                                      @ + value],
                  <<>>, <<>>)
        ELSE IF ~(s1.depositorCount[seller] < MAX_DEPOSITORS)
        THEN Revert(st, "Limit: Max 3 depositors reached")
        ELSE Done([s1 EXCEPT
                     !.depositorList[seller] =
                         Append(@, DepositorInfo(sender, value)),
                     !.depositorCount[seller] = @ + 1],
                  <<>>, <<>>)

deposit(st, sender, seller, value) ==
    IF st._locked THEN Revert(st, "Security: Reentrant call")
    ELSE IF ~(value > 0) THEN Revert(st, "Amount: Must be > 0")
    ELSE IF seller = Zero THEN Revert(st, "Address: Invalid seller")
    ELSE IF seller = sender
    THEN Revert(st, "Auth: Seller cannot self-deposit")
    ELSE
    LET s1 == [st EXCEPT !.balance = @ + value,
                         !.deposits[seller] = @ + value]
        i  == FindDepositor(s1.depositorList[seller], sender)
    IN  IF sender \in s1.isExistingDepositor[seller]
        THEN Done(IF i = 0 THEN s1
                  ELSE [s1 EXCEPT !.depositorList[seller][i].amount =
                                      @ + value],
                  <<>>, <<>>)
        ELSE IF ~(s1.depositorCount[seller] < MAX_DEPOSITORS)
        THEN Revert(st, "Limit: Max 3 depositors reached")
        ELSE Done([s1 EXCEPT
                     !.depositorList[seller] =
                         Append(@, DepositorInfo(sender, value)),
                     !.isExistingDepositor[seller] = @ \cup {sender},
                     !.depositorCount[seller] = @ + 1],
                  <<>>, <<>>)

\* mutant: the caller need not be a depositor
setContractRequirements_open(st, sender, seller, requirements, sellerContact) ==
    IF st._locked THEN Revert(st, "Security: Reentrant call")
    ELSE IF ~(requirements # "")
    THEN Revert(st, "Requirements: Cannot be empty")
    ELSE IF ~(st.deposits[seller] > 0)
    THEN Revert(st, "State: No deposit exists")
    ELSE Done([st EXCEPT
                 !.contractDetails[seller].requirements = requirements,
                 !.contractDetails[seller].sellerContact = sellerContact],
              <<>>, <<>>)

setContractRequirements(st, sender, seller, requirements, sellerContact) ==
    IF st._locked THEN Revert(st, "Security: Reentrant call")
    ELSE IF ~(requirements # "")
    THEN Revert(st, "Requirements: Cannot be empty")
    ELSE IF ~(st.deposits[seller] > 0)
    THEN Revert(st, "State: No deposit exists")
    ELSE IF ~(sender \in st.isExistingDepositor[seller])
    THEN Revert(st, "Auth: Only depositors")
    ELSE Done([st EXCEPT
                 !.contractDetails[seller].requirements = requirements,
                 !.contractDetails[seller].sellerContact = sellerContact],
              <<>>, <<>>)

\* mutant: a recorded delivery can be replaced
submitDelivery_resubmits(st, sender, deliveryHash, timestamp) ==
    IF st._locked THEN Revert(st, "Security: Reentrant call")
    ELSE IF ~(deliveryHash # "")
    THEN Revert(st, "Delivery: Hash cannot be empty")
    ELSE IF ~(st.deposits[sender] > 0)
    THEN Revert(st, "State: No escrow exists")
    ELSE IF ~(st.contractDetails[sender].requirements # "")
    THEN Revert(st, "State: Requirements not set")
    ELSE Done([st EXCEPT
                 !.contractDetails[sender].deliveryHash = deliveryHash,
                 !.contractDetails[sender].deliveryTime = timestamp,
                 !.contractDetails[sender].delivered = TRUE],
              <<>>, <<>>)

\* mutant: the hash may be empty
submitDelivery_emptyHash(st, sender, deliveryHash, timestamp) ==
    IF st._locked THEN Revert(st, "Security: Reentrant call")
    ELSE IF ~(st.deposits[sender] > 0)
    THEN Revert(st, "State: No escrow exists")
    ELSE IF st.contractDetails[sender].delivered
    THEN Revert(st, "State: Already delivered")
    ELSE IF ~(st.contractDetails[sender].requirements # "")
    THEN Revert(st, "State: Requirements not set")
    ELSE Done([st EXCEPT
                 !.contractDetails[sender].deliveryHash = deliveryHash,
                 !.contractDetails[sender].deliveryTime = timestamp,
                 !.contractDetails[sender].delivered = TRUE],
              <<>>, <<>>)

\* mutant: requirements need not be set
submitDelivery_noRequirements(st, sender, deliveryHash, timestamp) ==
    IF st._locked THEN Revert(st, "Security: Reentrant call")
    ELSE IF ~(deliveryHash # "")
    THEN Revert(st, "Delivery: Hash cannot be empty")
    ELSE IF ~(st.deposits[sender] > 0)
    THEN Revert(st, "State: No escrow exists")
    ELSE IF st.contractDetails[sender].delivered
    THEN Revert(st, "State: Already delivered")
    ELSE Done([st EXCEPT
                 !.contractDetails[sender].deliveryHash = deliveryHash,
                 !.contractDetails[sender].deliveryTime = timestamp,
                 !.contractDetails[sender].delivered = TRUE],
              <<>>, <<>>)

submitDelivery(st, sender, deliveryHash, timestamp) ==
    IF st._locked THEN Revert(st, "Security: Reentrant call")
    ELSE IF ~(deliveryHash # "")
    THEN Revert(st, "Delivery: Hash cannot be empty")
    ELSE IF ~(st.deposits[sender] > 0)
    THEN Revert(st, "State: No escrow exists")
    ELSE IF st.contractDetails[sender].delivered
    THEN Revert(st, "State: Already delivered")
    ELSE IF ~(st.contractDetails[sender].requirements # "")
    THEN Revert(st, "State: Requirements not set")
    ELSE Done([st EXCEPT
                 !.contractDetails[sender].deliveryHash = deliveryHash,
                 !.contractDetails[sender].deliveryTime = timestamp,
                 !.contractDetails[sender].delivered = TRUE],
              <<>>, <<>>)

\* mutant: the id is not looked up in the registry
release_reusesId(st, sender, seller, transactionId, recv, ext) ==
    IF ~onlyOracle(st, sender) THEN Revert(st, "Auth: Only Oracle")
    ELSE IF st._locked THEN Revert(st, "Security: Reentrant call")
    ELSE
    LET amount == st.deposits[seller]
    IN  IF ~(amount > 0) THEN Revert(st, "State: No funds to release")
        ELSE
        LET s1 == _clearSellerData(
                     [st EXCEPT !._locked = TRUE,
                                !.deposits[seller] = 0,
                                !.releasedTransactions[transactionId] = TRUE],
                     seller)
            c  == ext[s1, seller, amount, recv]
        IN  IF ~c.success
            THEN Revert(st, "Transfer: Failed to send funds")
            ELSE Done([c.st EXCEPT !._locked = FALSE],
                      <<Transfer(seller, amount, TRUE)>> \o c.transfers,
                      c.reentry)

\* mutant: the result of the transfer is not required
release_ignoresFailure(st, sender, seller, transactionId, recv, ext) ==
    IF ~onlyOracle(st, sender) THEN Revert(st, "Auth: Only Oracle")
    ELSE IF st._locked THEN Revert(st, "Security: Reentrant call")
    ELSE
    LET amount == st.deposits[seller]
    IN  IF ~(amount > 0) THEN Revert(st, "State: No funds to release")
        ELSE IF st.releasedTransactions[transactionId]
        THEN Revert(st, "State: Transaction ID already used")
        ELSE
        LET s1 == _clearSellerData(
                     [st EXCEPT !._locked = TRUE,
                                !.deposits[seller] = 0,
                                !.releasedTransactions[transactionId] = TRUE],
                     seller)
            c  == ext[s1, seller, amount, recv]
        IN  Done([c.st EXCEPT !._locked = FALSE],
                 <<Transfer(seller, amount, c.success)>> \o c.transfers,
                 c.reentry)

\* mutant: an empty vault can be released
release_emptyVault(st, sender, seller, transactionId, recv, ext) ==
    IF ~onlyOracle(st, sender) THEN Revert(st, "Auth: Only Oracle")
    ELSE IF st._locked THEN Revert(st, "Security: Reentrant call")
    ELSE
    LET amount == st.deposits[seller]
    IN  IF st.releasedTransactions[transactionId]
        THEN Revert(st, "State: Transaction ID already used")
        ELSE
        LET s1 == _clearSellerData(
                     [st EXCEPT !._locked = TRUE,
                                !.deposits[seller] = 0,
                                !.releasedTransactions[transactionId] = TRUE],
                     seller)
            c  == ext[s1, seller, amount, recv]
        IN  IF ~c.success
            THEN Revert(st, "Transfer: Failed to send funds")
            ELSE Done([c.st EXCEPT !._locked = FALSE],
                      <<Transfer(seller, amount, TRUE)>> \o c.transfers,
                      c.reentry)

release(st, sender, seller, transactionId, recv, ext) ==
    IF ~onlyOracle(st, sender) THEN Revert(st, "Auth: Only Oracle")
    ELSE IF st._locked THEN Revert(st, "Security: Reentrant call")
    ELSE
    LET amount == st.deposits[seller]
    IN  IF ~(amount > 0) THEN Revert(st, "State: No funds to release")
        ELSE IF st.releasedTransactions[transactionId]
        THEN Revert(st, "State: Transaction ID already used")
        ELSE
        LET s1 == _clearSellerData(
                     [st EXCEPT !._locked = TRUE,
                                !.deposits[seller] = 0,
                                !.releasedTransactions[transactionId] = TRUE],
                     seller)
            c  == ext[s1, seller, amount, recv]
        IN  IF ~c.success
            THEN Revert(st, "Transfer: Failed to send funds")
            ELSE Done([c.st EXCEPT !._locked = FALSE],
                      <<Transfer(seller, amount, TRUE)>> \o c.transfers,
                      c.reentry)

refund(st, sender, seller, recvs, ext) ==
    IF ~onlyOracle(st, sender) THEN Revert(st, "Auth: Only Oracle")
    ELSE IF st._locked THEN Revert(st, "Security: Reentrant call")
    ELSE
    LET totalToRefund == st.deposits[seller]
    IN  IF ~(totalToRefund > 0) THEN Revert(st, "State: No funds to refund")
        ELSE
        LET depositors == st.depositorList[seller]
            s1 == _clearSellerData(
                     [st EXCEPT !._locked = TRUE, !.deposits[seller] = 0],
                     seller)
            \* the state after i rounds of the loop over the memory copy
            \* of the depositor list; a failed transfer is skipped
            loop[i \in 0..Len(depositors)] ==
                IF i = 0
                THEN [st |-> s1, transfers |-> <<>>, reentry |-> <<>>]
                ELSE
                LET l == loop[i - 1]
                    amount == depositors[i].amount
                    c == ext[l.st, depositors[i].depositor, amount,
                                 recvs[i]]
                IN  IF amount > 0
                    THEN [st |-> c.st,
                          transfers |->
                              Append(l.transfers,
                                     Transfer(depositors[i].depositor,
                                              amount, c.success))
                                  \o c.transfers,
                          reentry |-> l.reentry \o c.reentry]
                    ELSE l
            l == loop[Len(depositors)]
        IN  Done([l.st EXCEPT !._locked = FALSE], l.transfers, l.reentry)

\* ----------------------------------------- ArcFuseEscrow (unguarded version)
unguarded_deposit(st, sender, seller, value) ==
    IF ~(value > 0) THEN Revert(st, "Deposit must be > 0")
    ELSE IF seller = Zero THEN Revert(st, "Invalid seller")
    ELSE IF seller = sender
    THEN Revert(st, "Seller cannot deposit for themselves")
    ELSE IF ~(st.depositorCount[seller] < MAX_DEPOSITORS)
    THEN Revert(st, "Maximum depositors reached")
    ELSE
    LET s1 == [st EXCEPT !.balance = @ + value,
                         !.deposits[seller] = @ + value]
        i  == FindDepositor(s1.depositorList[seller], sender)
    IN  IF i # 0
        THEN Done([s1 EXCEPT !.depositorList[seller][i].amount = @ + value],
                  <<>>, <<>>)
        ELSE Done([s1 EXCEPT
                     !.depositorList[seller] =
                         Append(@, DepositorInfo(sender, value)),
                     !.depositorCount[seller] = @ + 1],
                  <<>>, <<>>)

unguarded_release(st, sender, seller, transactionId, recv, ext) ==
    IF sender # st.oracle THEN Revert(st, "Only Oracle can call")
    ELSE IF ~(st.deposits[seller] > 0) THEN Revert(st, "No funds")
    ELSE IF st.releasedTransactions[transactionId]
    THEN Revert(st, "Tx already processed")
    ELSE
    LET amount == st.deposits[seller]
        s1 == [st EXCEPT !.deposits[seller] = 0,
                         !.depositorList[seller] = <<>>,
                         !.depositorCount[seller] = 0,
                         !.releasedTransactions[transactionId] = TRUE]
        c  == ext[s1, seller, amount, recv]
    IN  IF ~c.success THEN Revert(st, "Transfer failed")
        ELSE Done(c.st, <<Transfer(seller, amount, TRUE)>> \o c.transfers,
                  c.reentry)

unguarded_refund(st, sender, seller, recvs, ext) ==
    IF sender # st.oracle THEN Revert(st, "Only Oracle can call")
    ELSE IF ~(st.deposits[seller] > 0) THEN Revert(st, "No funds")
    ELSE IF ~(Len(st.depositorList[seller]) > 0)
    THEN Revert(st, "No depositors found")
    ELSE
    LET s1 == [st EXCEPT !.deposits[seller] = 0]
        depositors == s1.depositorList[seller]
        \* the state after i rounds of the loop; a failed transfer aborts
        loop[i \in 0..Len(depositors)] ==
            IF i = 0
            THEN [failed |-> FALSE, st |-> s1, transfers |-> <<>>,
                  reentry |-> <<>>]
            ELSE
            LET l == loop[i - 1]
                refundAmount == depositors[i].amount
                c == ext[l.st, depositors[i].depositor, refundAmount,
                             recvs[i]]
            IN  IF l.failed \/ ~(refundAmount > 0) THEN l
                ELSE IF ~c.success THEN [l EXCEPT !.failed = TRUE]
                ELSE [failed |-> FALSE, st |-> c.st,
                      transfers |->
                          Append(l.transfers,
                                 Transfer(depositors[i].depositor,
                                          refundAmount, TRUE))
                              \o c.transfers,
                      reentry |-> l.reentry \o c.reentry]
        l == loop[Len(depositors)]
    IN  IF l.failed THEN Revert(st, "Refund failed")
        ELSE Done([l.st EXCEPT !.depositorList[seller] = <<>>,
                               !.depositorCount[seller] = 0],
                  l.transfers, l.reentry)

\* -------------------------------------------------- Escrow (Escrow.sol)
Escrow_deposit(st, sender, seller, value) ==
    IF seller = Zero THEN Revert(st, "Escrow: Zero address not allowed")
    ELSE IF ~(value > 0)
    THEN Revert(st, "Escrow: Deposit amount must be greater than 0")
    ELSE Done([st EXCEPT !.balance = @ + value,
                         !.deposits[seller] = @ + value],
              <<>>, <<>>)

Escrow_release(st, sender, seller, transactionId, recv, ext) ==
    IF sender # st.oracle
    THEN Revert(st, "Escrow: Only HALE Oracle can call this function")
    ELSE IF seller = Zero THEN Revert(st, "Escrow: Zero address not allowed")
    ELSE IF ~(st.deposits[seller] > 0)
    THEN Revert(st, "Escrow: No funds to release")
    ELSE IF st.releasedTransactions[transactionId]
    THEN Revert(st, "Escrow: Transaction already processed")
    ELSE
    LET amount == st.deposits[seller]
        s1 == [st EXCEPT !.deposits[seller] = 0,
                         !.releasedTransactions[transactionId] = TRUE,
                         !.sellerTransactions[seller] =
                             Append(@, transactionId)]
        c  == ext[s1, seller, amount, recv]
    IN  IF ~c.success THEN Revert(st, "Escrow: Transfer failed")
        ELSE Done(c.st, <<Transfer(seller, amount, TRUE)>> \o c.transfers,
                  c.reentry)

\* mutant: the whole recorded balance is written off, amount is paid
Escrow_releasePartial_clearsAll(st, sender, seller, amount, transactionId, recv, ext) ==
    IF sender # st.oracle
    THEN Revert(st, "Escrow: Only HALE Oracle can call this function")
    ELSE IF seller = Zero THEN Revert(st, "Escrow: Zero address not allowed")
    ELSE IF ~(amount > 0)
    THEN Revert(st, "Escrow: Amount must be greater than 0")
    ELSE IF ~(st.deposits[seller] >= amount)
    THEN Revert(st, "Escrow: Insufficient funds")
    ELSE IF st.releasedTransactions[transactionId]
    THEN Revert(st, "Escrow: Transaction already processed")
    ELSE
    LET s1 == [st EXCEPT !.deposits[seller] = 0,
                         !.releasedTransactions[transactionId] = TRUE,
                         !.sellerTransactions[seller] =
                             Append(@, transactionId)]
        c  == ext[s1, seller, amount, recv]
    IN  IF ~c.success THEN Revert(st, "Escrow: Transfer failed")
        ELSE Done(c.st, <<Transfer(seller, amount, TRUE)>> \o c.transfers,
                  c.reentry)

Escrow_releasePartial(st, sender, seller, amount, transactionId, recv, ext) ==
    IF sender # st.oracle
    THEN Revert(st, "Escrow: Only HALE Oracle can call this function")
    ELSE IF seller = Zero THEN Revert(st, "Escrow: Zero address not allowed")
    ELSE IF ~(amount > 0)
    THEN Revert(st, "Escrow: Amount must be greater than 0")
    ELSE IF ~(st.deposits[seller] >= amount)
    THEN Revert(st, "Escrow: Insufficient funds")
    ELSE IF st.releasedTransactions[transactionId]
    THEN Revert(st, "Escrow: Transaction already processed")
    ELSE
    LET s1 == [st EXCEPT !.deposits[seller] = @ - amount,
                         !.releasedTransactions[transactionId] = TRUE,
                         !.sellerTransactions[seller] =
                             Append(@, transactionId)]
        c  == ext[s1, seller, amount, recv]
    IN  IF ~c.success THEN Revert(st, "Escrow: Transfer failed")
        ELSE Done(c.st, <<Transfer(seller, amount, TRUE)>> \o c.transfers,
                  c.reentry)

Escrow_withdraw(st, sender, seller) ==
    IF sender # st.oracle
    THEN Revert(st, "Escrow: Only HALE Oracle can call this function")
    ELSE IF seller = Zero THEN Revert(st, "Escrow: Zero address not allowed")
    ELSE IF ~(st.deposits[seller] > 0)
    THEN Revert(st, "Escrow: No funds to withdraw")
    ELSE Done([st EXCEPT !.deposits[seller] = 0], <<>>, <<>>)

\* mutant: anyone may replace the oracle
Escrow_updateOracle_open(st, sender, newOracle) ==
    IF newOracle = Zero THEN Revert(st, "Escrow: Zero address not allowed")
    ELSE Done([st EXCEPT !.oracle = newOracle], <<>>, <<>>)

Escrow_updateOracle(st, sender, newOracle) ==
    IF sender # st.owner
    THEN Revert(st, "Escrow: Only owner can call this function")
    ELSE IF newOracle = Zero
    THEN Revert(st, "Escrow: Zero address not allowed")
    ELSE Done([st EXCEPT !.oracle = newOracle], <<>>, <<>>)

Escrow_transferOwnership(st, sender, newOwner) ==
    IF sender # st.owner
    THEN Revert(st, "Escrow: Only owner can call this function")
    ELSE IF newOwner = Zero
    THEN Revert(st, "Escrow: Zero address not allowed")
    ELSE Done([st EXCEPT !.owner = newOwner], <<>>, <<>>)

\* ------------------------------------ ArcFuseEscrowFactory (factory)
\* the factory's storage and the escrows it deployed, as one value; a
\* created escrow's address is its rank among the contracts the factory
\* created
FactoryStorage ==
    [oracleAddress |-> oracleAddress, allEscrows |-> allEscrows,
     userEscrows |-> userEscrows, escrows |-> escrows]

\* constructor(address _oracle, address _owner) of a created escrow
ArcFuseEscrow_constructor(_oracle, _owner) ==
    [oracle |-> _oracle, owner |-> _owner]

\* mutant: the created escrow is owned by the oracle
createEscrow_ownedByOracle(f, sender) ==
    LET newEscrow == ArcFuseEscrow_constructor(f.oracleAddress,
                                               f.oracleAddress)
        escrowAddr == Len(f.escrows) + 1
    IN  Done([f EXCEPT !.escrows = Append(@, newEscrow),
                       !.allEscrows = Append(@, escrowAddr),
                       !.userEscrows[sender] = Append(@, escrowAddr)],
             <<>>, <<>>)

createEscrow(f, sender) ==
    LET newEscrow == ArcFuseEscrow_constructor(f.oracleAddress, sender)
        escrowAddr == Len(f.escrows) + 1
    IN  Done([f EXCEPT !.escrows = Append(@, newEscrow),
                       !.allEscrows = Append(@, escrowAddr),
                       !.userEscrows[sender] = Append(@, escrowAddr)],
             <<>>, <<>>)

\* mutant: the factory's oracle is replaced by the argument
Factory_updateOracle_sets(f, sender, _newOracle) ==
    Done([f EXCEPT !.oracleAddress = _newOracle], <<>>, <<>>)

\* the body is empty
Factory_updateOracle(f, sender, _newOracle) == Done(f, <<>>, <<>>)

\* ------------------------------------------------------ calls from a hook
\* the calls a receive hook makes back into the contract; their own
\* recipients accept
AllAccept == [i \in 1..MAX_DEPOSITORS |-> Accepting]

ReentrantCall(op, seller) == [op |-> op, seller |-> seller]

\* the calls offered to the hook of a payment out of seller's vault: each
\* operation, on that vault
ReentrantCalls(seller) ==
    {ReentrantCall(op, seller) :
        op \in {"deposit", "setContractRequirements", "submitDelivery",
                "release", "refund"}}

Dispatch(st, sender, c) ==
    IF variant \in {"guarded", "system"}
    THEN CASE c.op = "deposit" -> deposit(st, sender, c.seller, 1)
           [] c.op = "setContractRequirements" ->
                 setContractRequirements(st, sender, c.seller, "r1", "c1")
           [] c.op = "submitDelivery" -> submitDelivery(st, sender, "h1", 7)
           [] c.op = "release" ->
                 release(st, sender, c.seller, "tx2", Accepting, PlainCall)
           [] c.op = "refund" ->
                 refund(st, sender, c.seller, AllAccept, PlainCall)
    ELSE IF variant = "unguarded"
    THEN CASE c.op = "deposit" -> unguarded_deposit(st, sender, c.seller, 1)
           [] c.op = "release" ->
                 unguarded_release(st, sender, c.seller, "tx2", Accepting,
                                   PlainCall)
           [] c.op = "refund" ->
                 unguarded_refund(st, sender, c.seller, AllAccept, PlainCall)
           [] OTHER -> Revert(st, "no such function")
    ELSE CASE c.op = "deposit" -> Escrow_deposit(st, sender, c.seller, 1)
           [] c.op = "release" ->
                 Escrow_release(st, sender, c.seller, "tx2", Accepting,
                                PlainCall)
           [] c.op = "refund" -> Escrow_withdraw(st, sender, c.seller)
           [] OTHER -> Revert(st, "no such function")

\* (bool success, ) = payable(to).call{value: amount}(""): the recipient's
\* hook accepts, refuses, or calls back into the contract and then accepts
CallTo(st, to, amount, recv) ==
    IF recv.kind = "reenter"
    THEN LET r == Dispatch([st EXCEPT !.balance = @ - amount], to, recv.call)
         IN  [success |-> TRUE, st |-> r.st, transfers |-> r.transfers,
              reentry |-> <<[by |-> to, op |-> recv.call.op, ok |-> r.ok,
                             reason |-> r.reason]>>]
    ELSE PlainCallTo(st, to, amount, recv)

\* the same, as the function handed to a handler that makes the call
Call ==
    [st \in StorageSet, to \in Addr, amount \in Nat, recv \in HookSet |->
        CallTo(st, to, amount, recv)]

Hooks(seller) ==
    {Accepting, Rejecting} \cup {Reentering(c) : c \in ReentrantCalls(seller)}

\* hooks of the n recipients of a refund: each accepts or refuses, or one of
\* them calls back while the others accept
RefundHooks(n, seller) ==
    [1..n -> {Accepting, Rejecting}]
    \cup {[j \in 1..n |-> IF j = i THEN Reentering(c) ELSE Accepting] :
             i \in 1..n, c \in ReentrantCalls(seller)}

\* (bool success, ) = payable(to).call{value: amount}("") to a recipient
\* that accepts the payment and reports the storage it reads while paid
Observe ==
    [st \in StorageSet, to \in Addr, amount \in Nat, recv \in HookSet |->
        [success |-> TRUE, st |-> [st EXCEPT !.balance = @ - amount],
         transfers |-> <<>>, reentry |-> <<st>>]]

\* the recipients' behaviour matters only to a call that reaches a transfer
RecvChoices(r0, hooks) == IF r0.ok THEN hooks ELSE {Accepting}

\* ------------------------------------------------------------ transactions
\* A transaction takes effect: storage as the handler left it (as before
\* the call on revert) and its outcome recorded.  A reverted transaction
\* changes no storage: it is recorded as a leaf, and the transactions that
\* can follow it are those explored from the state it was sent in.  A
\* deposit is sent when the contract's balance after it is within MaxBalance.
Commit(op, r) ==
    /\ last.ok
    /\ oracle' = r.st.oracle
    /\ owner' = r.st.owner
    /\ deposits' = r.st.deposits
    /\ depositorList' = r.st.depositorList
    /\ depositorCount' = r.st.depositorCount
    /\ isExistingDepositor' = r.st.isExistingDepositor
    /\ contractDetails' = r.st.contractDetails
    /\ releasedTransactions' = r.st.releasedTransactions
    /\ sellerTransactions' = r.st.sellerTransactions
    /\ _locked' = r.st._locked
    /\ balance' = r.st.balance
    /\ last' = [op |-> op, ok |-> r.ok, reason |-> r.reason,
                transfers |-> r.transfers]
    /\ UNCHANGED <<variant, accounts>>
    /\ UNCHANGED <<factoryVars, escrowStorage>>

\* the storage of an escrow the factory has just created with identity e
NewEscrowStorage(e) ==
    [oracle |-> e.oracle, owner |-> e.owner,
     deposits |-> [s \in Addr |-> 0],
     depositorList |-> [s \in Addr |-> <<>>],
     depositorCount |-> [s \in Addr |-> 0],
     isExistingDepositor |-> [s \in Addr |-> {}],
     contractDetails |-> [s \in Addr |-> NoDetails],
     releasedTransactions |-> [t \in TxIds |-> FALSE],
     sellerTransactions |-> [s \in Addr |-> <<>>],
     _locked |-> FALSE, balance |-> 0]

\* the same for a transaction sent to the factory; the escrows it created
\* start with the storage their constructor leaves
FactoryCommit(op, r) ==
    /\ last.ok
    /\ oracleAddress' = r.st.oracleAddress
    /\ allEscrows' = r.st.allEscrows
    /\ userEscrows' = r.st.userEscrows
    /\ escrows' = r.st.escrows
    /\ escrowStorage' =
          [a \in DOMAIN r.st.escrows |->
              IF a \in DOMAIN escrowStorage THEN escrowStorage[a]
              ELSE NewEscrowStorage(r.st.escrows[a])]
    /\ last' = [op |-> op, ok |-> r.ok, reason |-> r.reason,
                transfers |-> r.transfers]
    /\ UNCHANGED <<variant, accounts>>
    /\ UNCHANGED storageVars

\* the same for a transaction sent to the created escrow at address a
EscrowCommit(a, op, r) ==
    /\ last.ok
    /\ escrowStorage' = [escrowStorage EXCEPT ![a] = r.st]
    /\ last' = [op |-> op, ok |-> r.ok, reason |-> r.reason,
                transfers |-> r.transfers]
    /\ UNCHANGED <<variant, accounts>>
    /\ UNCHANGED <<storageVars, factoryVars>>

Tx_createEscrow(sender) ==
    /\ Len(allEscrows) < MaxEscrows
    /\ FactoryCommit("createEscrow", createEscrow(FactoryStorage, sender))

Tx_Factory_updateOracle(sender, _newOracle) ==
    /\ FactoryCommit("updateOracle",
                     Factory_updateOracle(FactoryStorage, sender, _newOracle))

\* native value held by all created escrows
RECURSIVE TotalBalance(_)
TotalBalance(sts) ==
    IF sts = <<>> THEN 0 ELSE Head(sts).balance + TotalBalance(Tail(sts))

\* transactions sent to a created escrow; deposits are sent while the
\* created escrows hold at most MaxSystemBalance together
Tx_at_deposit(a, sender, seller, value) ==
    LET r == deposit(escrowStorage[a], sender, seller, value)
    IN  /\ TotalBalance([escrowStorage EXCEPT ![a] = r.st])
              <= MaxSystemBalance
        /\ EscrowCommit(a, "deposit", r)

Tx_at_release(a, sender, seller, transactionId, recv) ==
    /\ EscrowCommit(a, "release",
                    release(escrowStorage[a], sender, seller, transactionId,
                            recv, Call))

Tx_at_refund(a, sender, seller, recvs) ==
    /\ EscrowCommit(a, "refund",
                    refund(escrowStorage[a], sender, seller, recvs, Call))

Tx_deposit(sender, seller, value) ==
    LET r == deposit(Storage, sender, seller, value)
    IN  /\ r.st.balance <= MaxBalance
        /\ Commit("deposit", r)

Tx_setContractRequirements(sender, seller, requirements, sellerContact) ==
    /\ Commit("setContractRequirements",
              setContractRequirements(Storage, sender, seller, requirements,
                                      sellerContact))

Tx_submitDelivery(sender, deliveryHash, timestamp) ==
    /\ Commit("submitDelivery",
              submitDelivery(Storage, sender, deliveryHash, timestamp))

Tx_release(sender, seller, transactionId, recv) ==
    /\ Commit("release",
              release(Storage, sender, seller, transactionId, recv, Call))

Tx_refund(sender, seller, recvs) ==
    /\ Commit("refund",
              refund(Storage, sender, seller, recvs, Call))

Tx_unguarded_deposit(sender, seller, value) ==
    LET r == unguarded_deposit(Storage, sender, seller, value)
    IN  /\ r.st.balance <= MaxBalance
        /\ Commit("deposit", r)

Tx_unguarded_release(sender, seller, transactionId, recv) ==
    /\ Commit("release",
              unguarded_release(Storage, sender, seller, transactionId, recv,
                                Call))

Tx_unguarded_refund(sender, seller, recvs) ==
    /\ Commit("refund",
              unguarded_refund(Storage, sender, seller, recvs, Call))

Tx_Escrow_deposit(sender, seller, value) ==
    LET r == Escrow_deposit(Storage, sender, seller, value)
    IN  /\ r.st.balance <= MaxBalance
        /\ Commit("deposit", r)

Tx_Escrow_release(sender, seller, transactionId, recv) ==
    /\ Commit("release",
              Escrow_release(Storage, sender, seller, transactionId, recv,
                             Call))

Tx_Escrow_releasePartial(sender, seller, amount, transactionId, recv) ==
    /\ Commit("releasePartial",
              Escrow_releasePartial(Storage, sender, seller, amount,
                                    transactionId, recv, Call))

Tx_Escrow_withdraw(sender, seller) ==
    /\ Commit("withdraw",
              Escrow_withdraw(Storage, sender, seller))

Tx_Escrow_updateOracle(sender, newOracle) ==
    /\ Commit("updateOracle",
              Escrow_updateOracle(Storage, sender, newOracle))

Tx_Escrow_transferOwnership(sender, newOwner) ==
    /\ Commit("transferOwnership",
              Escrow_transferOwnership(Storage, sender, newOwner))

\* ------------------------------------------------------------ specification
SellerArgs == (Sellers \cap accounts) \cup {Zero}

\* requirements/contact pairs offered: the empty text everywhere, one text
\* in the populations of three, a second one where there is a single seller
ReqArgs ==
    {<<"", "c1">>}
    \cup (IF Cardinality(accounts) = 3 THEN {<<"r1", "c1">>} ELSE {})
    \cup (IF Cardinality(accounts) = 3 /\ ~(Sellers \subseteq accounts)
          THEN {<<"r2", "c2">>} ELSE {})

Constructed(v) ==
    /\ variant = v
    /\ accounts \in Populations
    /\ oracle = OracleAddr
    /\ owner = OwnerAddr
    /\ deposits = [s \in Addr |-> 0]
    /\ depositorList = [s \in Addr |-> <<>>]
    /\ depositorCount = [s \in Addr |-> 0]
    /\ isExistingDepositor = [s \in Addr |-> {}]
    /\ contractDetails = [s \in Addr |-> NoDetails]
    /\ releasedTransactions = [t \in TxIds |-> FALSE]
    /\ sellerTransactions = [s \in Addr |-> <<>>]
    /\ _locked = FALSE
    /\ balance = 0
    /\ oracleAddress = OracleAddr
    /\ allEscrows = <<>>
    /\ userEscrows = [a \in Addr |-> <<>>]
    /\ escrows = <<>>
    /\ escrowStorage = <<>>
    /\ last = [op |-> "constructor", ok |-> TRUE, reason |-> "",
               transfers |-> <<>>]

\* ArcFuseEscrow, guarded version
Init == Constructed("guarded")

Next ==
    \/ \E sender \in accounts, seller \in SellerArgs, value \in Values :
          Tx_deposit(sender, seller, value)
    \/ \E sender \in accounts, seller \in SellerArgs, ra \in ReqArgs :
          Tx_setContractRequirements(sender, seller, ra[1], ra[2])
    \/ \E sender \in accounts, h \in HashArgs, t \in Timestamps :
          Tx_submitDelivery(sender, h, t)
    \/ \E sender \in accounts, seller \in SellerArgs, id \in TxIds :
          \E recv \in RecvChoices(release(Storage, sender, seller, id,
                                          Accepting, Call), Hooks(seller)) :
             Tx_release(sender, seller, id, recv)
    \/ \E sender \in accounts, seller \in SellerArgs :
          \E recvs \in RecvChoices(refund(Storage, sender, seller, AllAccept,
                                          Call),
                                   RefundHooks(Len(depositorList[seller]),
                                               seller)) :
             Tx_refund(sender, seller, recvs)

Spec == Init /\ [][Next]_vars

\* ArcFuseEscrow, unguarded version
InitUnguarded == Constructed("unguarded")

NextUnguarded ==
    \/ \E sender \in accounts, seller \in SellerArgs, value \in Values :
          Tx_unguarded_deposit(sender, seller, value)
    \/ \E sender \in accounts, seller \in SellerArgs, id \in TxIds :
          \E recv \in RecvChoices(unguarded_release(Storage, sender, seller,
                                             id, Accepting, Call),
                                  Hooks(seller)) :
             Tx_unguarded_release(sender, seller, id, recv)
    \/ \E sender \in accounts, seller \in SellerArgs :
          \E recvs \in RecvChoices(unguarded_refund(Storage, sender, seller,
                                                    AllAccept, Call),
                                   RefundHooks(Len(depositorList[seller]),
                                               seller)) :
             Tx_unguarded_refund(sender, seller, recvs)

SpecUnguarded == InitUnguarded /\ [][NextUnguarded]_vars

\* Escrow.sol: the deployer, who is the first owner, calls too; the oracle
\* is replaced by a buyer of the population or put back, the ownership is
\* handed to the first oracle
OwnerCallers == accounts \cup {OwnerAddr}
OracleArgs == {Zero, OracleAddr} \cup (accounts \cap {"buyer1"})
OwnerArgs == {Zero, OracleAddr}

InitEscrow == Constructed("escrow")

NextEscrow ==
    \/ \E sender \in accounts, seller \in SellerArgs, value \in Values :
          Tx_Escrow_deposit(sender, seller, value)
    \/ \E sender \in accounts, seller \in SellerArgs, id \in TxIds :
          \E recv \in RecvChoices(Escrow_release(Storage, sender, seller, id,
                                                 Accepting, Call),
                                  Hooks(seller)) :
             Tx_Escrow_release(sender, seller, id, recv)
    \/ \E sender \in accounts, seller \in SellerArgs,
          amount \in 0..MaxBalance, id \in TxIds :
          \E recv \in RecvChoices(Escrow_releasePartial(Storage, sender,
                                     seller, amount, id, Accepting, Call),
                                  Hooks(seller)) :
             Tx_Escrow_releasePartial(sender, seller, amount, id, recv)
    \/ \E sender \in accounts, seller \in SellerArgs :
          Tx_Escrow_withdraw(sender, seller)
    \/ \E sender \in OwnerCallers, newOracle \in OracleArgs :
          Tx_Escrow_updateOracle(sender, newOracle)
    \/ \E sender \in OwnerCallers, newOwner \in OwnerArgs :
          Tx_Escrow_transferOwnership(sender, newOwner)

SpecEscrow == InitEscrow /\ [][NextEscrow]_vars

\* ArcFuseEscrowFactory
InitFactory == Constructed("factory")

NextFactory ==
    \/ \E sender \in accounts : Tx_createEscrow(sender)
    \/ \E sender \in accounts, _newOracle \in accounts \cup {Zero} :
          Tx_Factory_updateOracle(sender, _newOracle)

SpecFactory == InitFactory /\ [][NextFactory]_vars

\* ArcFuseEscrowFactory and the escrows it created, in the population of
\* the oracle, one seller and one buyer; the oracle and the buyer create
\* the escrows, everyone calls them
InitSystem ==
    Constructed("system") /\ accounts = {OracleAddr, "sellerA", "buyer1"}

NextSystem ==
    \/ \E sender \in accounts \ Sellers :
          Len(allEscrows) < MaxSystemEscrows /\ Tx_createEscrow(sender)
    \/ \E sender \in accounts, _newOracle \in accounts \cup {Zero} :
          Tx_Factory_updateOracle(sender, _newOracle)
    \/ \E a \in DOMAIN escrowStorage, sender \in accounts,
          seller \in SellerArgs, value \in Values :
          Tx_at_deposit(a, sender, seller, value)
    \/ \E a \in DOMAIN escrowStorage, sender \in accounts,
          seller \in SellerArgs, transactionId \in {"tx1"} :
          \E recv \in RecvChoices(release(escrowStorage[a], sender, seller,
                                          transactionId, Accepting,
                                          PlainCall),
                                  Hooks(seller)) :
             Tx_at_release(a, sender, seller, transactionId, recv)
    \/ \E a \in DOMAIN escrowStorage, sender \in accounts,
          seller \in SellerArgs :
          \E recvs \in RecvChoices(
                          refund(escrowStorage[a], sender, seller, AllAccept,
                                 PlainCall),
                          RefundHooks(Len(escrowStorage[a].depositorList[seller]),
                                      seller)) :
             Tx_at_refund(a, sender, seller, recvs)

SpecSystem == InitSystem /\ [][NextSystem]_vars

\* ------------------------------------------------------------------ claims
\* the vault of seller is cleared
Cleared(seller) ==
    /\ deposits[seller] = 0
    /\ depositorList[seller] = <<>>
    /\ depositorCount[seller] = 0
    /\ contractDetails[seller] = NoDetails

\* the value that reached address d in a transaction's transfers
RECURSIVE PaidTo(_, _)
PaidTo(transfers, d) ==
    IF transfers = <<>> THEN 0
    ELSE (IF Head(transfers).to = d /\ Head(transfers).success
          THEN Head(transfers).amount ELSE 0)
         + PaidTo(Tail(transfers), d)

\* the sum of deposits[seller] over the sellers in S
RECURSIVE TotalDeposits(_, _)
TotalDeposits(d, S) ==
    IF S = {} THEN 0
    ELSE LET s == CHOOSE x \in S : TRUE
         IN  d[s] + TotalDeposits(d, S \ {s})

\* C1 - Conservation (I1): between transactions of the guarded ArcFuseEscrow,
\* for every seller deposits[seller] is the sum of the amounts of the entries
\* of depositorList[seller].
C1_Conservation ==
    \A seller \in Addr :
        deposits[seller] = SumAmounts(depositorList[seller])

\* several depositors, one of whom topped up
C1_Witness ==
    /\ last.ok
    /\ \E seller \in Sellers :
          /\ Len(depositorList[seller]) >= 2
          /\ \E i \in 1..Len(depositorList[seller]) :
                depositorList[seller][i].amount >= 2
          /\ contractDetails[seller].delivered

\* C2 - Refund exactness: a refund that goes through on a vault with positive
\* balance pays every recorded depositor exactly the amount of its entry, the
\* sum paid is the balance before the call, and the vault is cleared.
C2_RefundExactness ==
    [][(last'.op = "refund" /\ last'.ok) =>
          \E seller \in Sellers :
             /\ deposits[seller] > 0
             /\ \A i \in 1..Len(depositorList[seller]) :
                   PaidTo(last'.transfers, depositorList[seller][i].depositor)
                       = depositorList[seller][i].amount
             /\ balance' = balance - deposits[seller]
             /\ Cleared(seller)']_vars

\* C3 - Release outcome: a release that goes through found a positive balance
\* and an unused id; it transfers the entire balance to the seller, clears
\* the vault and registers the id.
C3_ReleaseOutcome ==
    [][(last'.op = "release" /\ last'.ok) =>
          \E seller \in Sellers, id \in TxIds :
             /\ deposits[seller] > 0
             /\ ~releasedTransactions[id]
             /\ last'.transfers = <<Transfer(seller, deposits[seller], TRUE)>>
             /\ balance' = balance - deposits[seller]
             /\ Cleared(seller)'
             /\ releasedTransactions'[id]]_vars

\* a release of a vault that had two depositors, requirements and a delivery
C3_Witness ==
    /\ last.op = "release" /\ last.ok
    /\ \E seller \in Sellers :
          /\ last.transfers = <<Transfer(seller, 3, TRUE)>>
          /\ Cleared(seller)
    /\ \E id \in TxIds : releasedTransactions[id]

\* C4 - Replay protection within one escrow: a registered id stays
\* registered; a release (or releasePartial, where the contract has one)
\* that goes through registers an id that was not registered before; and
\* every release or releasePartial carrying a registered id, whoever sends
\* it and for whichever seller, fails and leaves the storage, the balances
\* accrued since included, as it was.
C4_ReplayProtection ==
    /\ [](last.ok =>
            \A id \in TxIds :
               releasedTransactions[id] =>
                  \A sender \in accounts, seller \in SellerArgs :
                  \A recv \in Hooks(seller) :
                     LET r == CASE variant = "guarded" ->
                                     release(Storage, sender, seller, id,
                                             recv, Call)
                                [] variant = "unguarded" ->
                                     unguarded_release(Storage, sender,
                                                       seller, id, recv, Call)
                                [] variant = "escrow" ->
                                     Escrow_release(Storage, sender, seller,
                                                    id, recv, Call)
                     IN  /\ ~r.ok /\ r.st = Storage /\ r.transfers = <<>>
                         /\ variant = "escrow" =>
                               \A amount \in 0..MaxBalance :
                                  LET p == Escrow_releasePartial(
                                              Storage, sender, seller, amount,
                                              id, recv, Call)
                                  IN  ~p.ok /\ p.st = Storage
                                      /\ p.transfers = <<>>)
    /\ [][/\ \A id \in TxIds :
                releasedTransactions[id] => releasedTransactions'[id]
          /\ (last'.op \in {"release", "releasePartial"} /\ last'.ok) =>
                \E id \in TxIds :
                   ~releasedTransactions[id] /\ releasedTransactions'[id]
         ]_vars

\* a release carrying a used id was refused while a vault refilled after the
\* first release held funds
C4_Witness ==
    /\ last.op = "release" /\ ~last.ok
    /\ last.reason = "State: Transaction ID already used"
    /\ \E id \in TxIds : releasedTransactions[id]
    /\ \E seller \in Sellers :
          deposits[seller] > 0 /\ Len(depositorList[seller]) >= 2

\* C5 - Authorization: a release or refund sent by anyone but the oracle
\* fails, moves no value and leaves the whole storage unchanged; and no
\* call sent by anyone but the oracle moves value out of the escrow.
C5_Authorization ==
    last.ok =>
       \A sender \in accounts \ {oracle}, seller \in SellerArgs :
          /\ \A id \in TxIds, recv \in Hooks(seller) :
                LET r == release(Storage, sender, seller, id, recv, Call)
                IN  ~r.ok /\ r.st = Storage /\ r.transfers = <<>>
          /\ \A recvs \in RefundHooks(Len(depositorList[seller]), seller) :
                LET r == refund(Storage, sender, seller, recvs, Call)
                IN  ~r.ok /\ r.st = Storage /\ r.transfers = <<>>
          /\ \A value \in Values :
                LET r == deposit(Storage, sender, seller, value)
                IN  r.transfers = <<>> /\ r.st.balance >= balance
          /\ \A ra \in ReqArgs :
                LET r == setContractRequirements(Storage, sender, seller,
                                                 ra[1], ra[2])
                IN  r.transfers = <<>> /\ r.st.balance >= balance
          /\ \A h \in HashArgs, t \in Timestamps :
                LET r == submitDelivery(Storage, sender, h, t)
                IN  r.transfers = <<>> /\ r.st.balance >= balance

\* a refund sent by a depositor of a funded vault was refused
C5_Witness ==
    /\ last.op = "refund" /\ ~last.ok
    /\ last.reason = "Auth: Only Oracle"
    /\ \E seller \in Sellers :
          /\ deposits[seller] >= 2
          /\ contractDetails[seller].requirements # ""
          /\ \E id \in TxIds : releasedTransactions[id]

\* C6 - Capacity (I2): every seller has at most 3 depositor entries and no
\* address twice in its list; a deposit from a 4th distinct address when 3
\* distinct depositors exist fails and leaves the storage unchanged; a
\* deposit from an address already in the list never changes the number of
\* entries or the depositor count.
C6_Capacity ==
    /\ \A seller \in Addr :
          /\ Len(depositorList[seller]) <= 3
          /\ Cardinality(DepositorsOf(depositorList[seller]))
                = Len(depositorList[seller])
    /\ last.ok =>
          \A seller \in Sellers \cap accounts, sender \in accounts,
             value \in Values :
             LET r == deposit(Storage, sender, seller, value)
                 listed == DepositorsOf(depositorList[seller])
             IN  /\ (Cardinality(listed) = 3 /\ sender \notin listed) =>
                       ~r.ok /\ r.st = Storage
                 /\ sender \in listed =>
                       /\ r.st.depositorCount[seller] = depositorCount[seller]
                       /\ Len(r.st.depositorList[seller])
                             = Len(depositorList[seller])

\* a 4th distinct depositor was turned away from a vault with 3 depositors
C6_Witness ==
    /\ last.op = "deposit" /\ ~last.ok
    /\ last.reason = "Limit: Max 3 depositors reached"
    /\ \E seller \in Sellers :
          Cardinality(DepositorsOf(depositorList[seller])) = 3

\* C7 - Top-up at capacity: a deposit with positive amount from an address
\* that is already one of the seller's depositors goes through, also when
\* the seller has 3 depositors; it adds the amount to that depositor's
\* entry and to deposits[seller] and creates no entry.  Stated for the
\* version of ArcFuseEscrow under check.
C7_TopUpAtCapacity ==
    last.ok =>
       \A seller \in Sellers \cap accounts, value \in Values \ {0} :
          \A i \in 1..Len(depositorList[seller]) :
             LET sender == depositorList[seller][i].depositor
                 r == IF variant = "guarded"
                      THEN deposit(Storage, sender, seller, value)
                      ELSE unguarded_deposit(Storage, sender, seller, value)
             IN  /\ r.ok
                 /\ r.st.deposits[seller] = deposits[seller] + value
                 /\ r.st.depositorList[seller] =
                       [depositorList[seller] EXCEPT ![i].amount = @ + value]
                 /\ r.st.depositorCount[seller] = depositorCount[seller]

\* C8 - Deposit rejections: a deposit fails and leaves the storage unchanged
\* when the amount is zero, the seller is the zero address or the caller is
\* the seller; any other caller with a positive amount and a seller under
\* capacity is accepted.
C8_DepositRejections ==
    last.ok =>
       \A sender \in accounts, seller \in SellerArgs, value \in Values :
          LET r == deposit(Storage, sender, seller, value)
          IN  /\ (value = 0 \/ seller = Zero \/ sender = seller) =>
                    ~r.ok /\ r.st = Storage /\ r.transfers = <<>>
              /\ (/\ value > 0 /\ seller # Zero /\ sender # seller
                  /\ depositorCount[seller] < 3) =>
                    /\ r.ok
                    /\ r.st.deposits[seller] = deposits[seller] + value
                    /\ r.st.balance = balance + value

\* a seller was refused a deposit into its own, funded vault
C8_Witness ==
    /\ last.op = "deposit" /\ ~last.ok
    /\ last.reason = "Auth: Seller cannot self-deposit"
    /\ \E seller \in Sellers : deposits[seller] > 0

\* C9 - Release atomicity: when the transfer to the seller fails, the
\* release fails and the storage is exactly as before the call (balance,
\* depositor list and count, contract details, registry), so the same id
\* is accepted by a later release whose transfer goes through.
C9_ReleaseAtomicity ==
    last.ok =>
       \A seller \in Sellers \cap accounts, id \in TxIds :
          (deposits[seller] > 0 /\ ~releasedTransactions[id]) =>
             LET rel(st, recv) ==
                    CASE variant = "guarded" ->
                            release(st, oracle, seller, id, recv, Call)
                      [] variant = "unguarded" ->
                            unguarded_release(st, oracle, seller, id, recv,
                                              Call)
                      [] variant = "escrow" ->
                            Escrow_release(st, oracle, seller, id, recv, Call)
                 r == rel(Storage, Rejecting)
                 again == rel(r.st, Accepting)
             IN  /\ ~r.ok /\ r.st = Storage /\ r.transfers = <<>>
                 /\ again.ok
                 /\ again.transfers =
                       <<Transfer(seller, deposits[seller], TRUE)>>
                 /\ again.st.releasedTransactions[id]

\* the seller of a vault with requirements and a delivery refused the payment
C9_Witness ==
    /\ last.op = "release" /\ ~last.ok
    /\ last.reason = "Transfer: Failed to send funds"
    /\ \E seller \in Sellers :
          /\ deposits[seller] > 0
          /\ contractDetails[seller].delivered
    /\ \A id \in TxIds : ~releasedTransactions[id]

\* C10 - Refund rollback: when the transfer to one of the depositors fails,
\* the refund fails, nobody is paid and the storage is exactly as before
\* the call.  Stated for the version of ArcFuseEscrow under check.
C10_RefundRollback ==
    last.ok =>
       \A seller \in Sellers \cap accounts :
          \A recvs \in [1..Len(depositorList[seller]) ->
                           {Accepting, Rejecting}] :
             (/\ deposits[seller] > 0
              /\ \E i \in 1..Len(depositorList[seller]) :
                    /\ recvs[i] = Rejecting
                    /\ depositorList[seller][i].amount > 0) =>
                LET r == IF variant = "guarded"
                         THEN refund(Storage, oracle, seller, recvs, Call)
                         ELSE unguarded_refund(Storage, oracle, seller, recvs,
                                               Call)
                IN  ~r.ok /\ r.st = Storage /\ r.transfers = <<>>

\* C11 - Reentrancy exclusion: every call a recipient's receive hook makes
\* back into the escrow while a release or a refund pays it is rejected
\* (deposit, setContractRequirements and submitDelivery make no external
\* call, so nothing can begin while they run).  Stated for the version of
\* ArcFuseEscrow under check.
C11_ReentrancyExclusion ==
    last.ok =>
       \A seller \in Sellers \cap accounts :
          /\ \A id \in TxIds :
             \A recv \in Hooks(seller) :
                LET r == IF variant = "guarded"
                         THEN release(Storage, oracle, seller, id, recv, Call)
                         ELSE unguarded_release(Storage, oracle, seller, id,
                                                recv, Call)
                IN  \A i \in 1..Len(r.reentry) : ~r.reentry[i].ok
          /\ \A recvs \in RefundHooks(Len(depositorList[seller]), seller) :
                LET r == IF variant = "guarded"
                         THEN refund(Storage, oracle, seller, recvs, Call)
                         ELSE unguarded_refund(Storage, oracle, seller, recvs,
                                               Call)
                IN  \A i \in 1..Len(r.reentry) : ~r.reentry[i].ok

\* C12 - Effects before interactions: at every value transfer of a release
\* or a refund the storage the recipient can read shows the seller's vault
\* settled (deposits[seller] = 0, no depositor entries, depositorCount = 0)
\* and, for a release, the id registered.  Stated for the contract under
\* check.
C12_EffectsBeforeInteractions ==
    last.ok =>
       \A seller \in Sellers \cap accounts :
          deposits[seller] > 0 =>
             /\ \A id \in TxIds :
                   ~releasedTransactions[id] =>
                      LET r == CASE variant = "guarded" ->
                                      release(Storage, oracle, seller, id,
                                              Accepting, Observe)
                                 [] variant = "unguarded" ->
                                      unguarded_release(Storage, oracle,
                                          seller, id, Accepting, Observe)
                                 [] variant = "escrow" ->
                                      Escrow_release(Storage, oracle, seller,
                                                     id, Accepting, Observe)
                      IN  /\ r.ok /\ Len(r.reentry) = 1
                          /\ r.reentry[1].deposits[seller] = 0
                          /\ r.reentry[1].depositorList[seller] = <<>>
                          /\ r.reentry[1].depositorCount[seller] = 0
                          /\ r.reentry[1].releasedTransactions[id]
             /\ variant # "escrow" =>
                   LET recvs == [i \in 1..Len(depositorList[seller]) |->
                                    Accepting]
                       r == IF variant = "guarded"
                            THEN refund(Storage, oracle, seller, recvs,
                                        Observe)
                            ELSE unguarded_refund(Storage, oracle, seller,
                                                  recvs, Observe)
                   IN  \A i \in 1..Len(r.reentry) :
                          /\ r.reentry[i].deposits[seller] = 0
                          /\ r.reentry[i].depositorList[seller] = <<>>
                          /\ r.reentry[i].depositorCount[seller] = 0

\* C13 - Idempotent clearing: while deposits[seller] is zero, as it is after
\* a release or a refund, every release and every refund by the oracle on
\* that seller fails, whatever id is passed and however the recipients
\* behave; it moves no value and leaves the storage, the registry included,
\* unchanged.
C13_IdempotentClearing ==
    last.ok =>
       \A seller \in Sellers \cap accounts :
          deposits[seller] = 0 =>
             /\ \A id \in TxIds :
                \A recv \in Hooks(seller) :
                   LET r == release(Storage, oracle, seller, id, recv, Call)
                   IN  ~r.ok /\ r.st = Storage /\ r.transfers = <<>>
             /\ \A recvs \in RefundHooks(Len(depositorList[seller]), seller) :
                   LET r == refund(Storage, oracle, seller, recvs, Call)
                   IN  ~r.ok /\ r.st = Storage /\ r.transfers = <<>>

\* the only seller's vault was released and a second release found no funds
C13_Witness ==
    /\ last.op = "release" /\ ~last.ok
    /\ last.reason = "State: No funds to release"
    /\ "sellerB" \notin accounts
    /\ deposits["sellerA"] = 0
    /\ \E id \in TxIds : releasedTransactions[id]
    /\ \E id \in TxIds : ~releasedTransactions[id]

\* C14 - Delivery guard: once a seller's delivery is recorded, every further
\* submitDelivery by that seller fails and changes nothing, and no step
\* (deposits and re-declared requirements included) changes the recorded
\* hash, time or flag except a release or refund that clears the vault; so
\* at most one submitDelivery succeeds between two clearings.
C14_DeliveryGuard ==
    /\ [](last.ok =>
            \A seller \in Sellers \cap accounts :
               contractDetails[seller].delivered =>
                  \A h \in HashArgs \cup {"h2"}, t \in Timestamps \cup {8} :
                     LET r == submitDelivery(Storage, seller, h, t)
                     IN  ~r.ok /\ r.st = Storage)
    /\ [][\A seller \in Sellers :
             contractDetails[seller].delivered =>
                \/ /\ contractDetails'[seller].delivered
                   /\ contractDetails'[seller].deliveryHash
                         = contractDetails[seller].deliveryHash
                   /\ contractDetails'[seller].deliveryTime
                         = contractDetails[seller].deliveryTime
                \/ /\ last'.op \in {"release", "refund"} /\ last'.ok
                   /\ Cleared(seller)'
         ]_vars

\* a second delivery was refused after the requirements were re-declared
C14_Witness ==
    /\ last.op = "submitDelivery" /\ ~last.ok
    /\ last.reason = "State: Already delivered"
    /\ \E seller \in Sellers :
          /\ contractDetails[seller].delivered
          /\ contractDetails[seller].requirements = "r2"
          /\ Len(depositorList[seller]) = 2

\* C15 - Invariant (I3): for every seller, delivered implies that the
\* delivery hash is non-empty and the requirements text is non-empty.
C15_DeliveredImplies ==
    \A seller \in Addr :
       contractDetails[seller].delivered =>
          /\ contractDetails[seller].deliveryHash # ""
          /\ contractDetails[seller].requirements # ""

\* a delivery is recorded
C15_Witness ==
    \E seller \in Sellers :
       /\ contractDetails[seller].delivered
       /\ contractDetails[seller].deliveryHash = "h1"
       /\ contractDetails[seller].requirements = "r1"

\* C16 - Requirements gating: setContractRequirements goes through exactly
\* when the caller is a depositor of the seller, deposits[seller] > 0 and
\* the text is non-empty; otherwise it fails with the storage unchanged.
\* When it goes through it replaces the requirements and the contact,
\* whatever they were, and changes nothing else; so it can be repeated.
C16_RequirementsGating ==
    last.ok =>
       \A sender \in accounts, seller \in SellerArgs,
          ra \in ReqArgs \cup {<<"r3", "c3">>} :
          LET r == setContractRequirements(Storage, sender, seller,
                                           ra[1], ra[2])
              allowed ==
                 /\ sender \in DepositorsOf(depositorList[seller])
                 /\ deposits[seller] > 0
                 /\ ra[1] # ""
          IN  /\ r.ok <=> allowed
              /\ ~r.ok => r.st = Storage
              /\ r.ok =>
                    /\ r.st = [Storage EXCEPT
                                  !.contractDetails[seller].requirements =
                                      ra[1],
                                  !.contractDetails[seller].sellerContact =
                                      ra[2]]
                    /\ setContractRequirements(r.st, sender, seller,
                                               ra[1], ra[2]).ok

\* requirements were re-declared with another text after a delivery
C16_Witness ==
    /\ last.op = "setContractRequirements" /\ last.ok
    /\ \E seller \in Sellers :
          /\ contractDetails[seller].delivered
          /\ contractDetails[seller].requirements = "r2"
          /\ contractDetails[seller].sellerContact = "c2"

\* C17 - Delivery gating: submitDelivery goes through exactly when the
\* caller's own vault has deposits > 0, requirements set and no delivery
\* recorded, and the hash is non-empty; otherwise it fails with the storage
\* unchanged.  When it goes through it writes the hash, the time and the
\* flag of the caller's own vault and nothing else, so no caller records a
\* delivery for another seller.
C17_DeliveryGating ==
    last.ok =>
       \A sender \in accounts, h \in HashArgs, t \in Timestamps :
          LET r == submitDelivery(Storage, sender, h, t)
              allowed ==
                 /\ deposits[sender] > 0
                 /\ contractDetails[sender].requirements # ""
                 /\ ~contractDetails[sender].delivered
                 /\ h # ""
          IN  /\ r.ok <=> allowed
              /\ ~r.ok => r.st = Storage
              /\ r.ok =>
                    r.st = [Storage EXCEPT
                               !.contractDetails[sender] =
                                   [@ EXCEPT !.deliveryHash = h,
                                             !.deliveryTime = t,
                                             !.delivered = TRUE]]

\* one of two funded sellers recorded its delivery, the other has none
C17_Witness ==
    /\ last.op = "submitDelivery" /\ last.ok
    /\ \E s1 \in Sellers, s2 \in Sellers :
          /\ contractDetails[s1].delivered
          /\ deposits[s2] > 0
          /\ contractDetails[s2].requirements # ""
          /\ ~contractDetails[s2].delivered

\* C18 - Vault reuse: a release or refund that goes through leaves the
\* seller's deposits at zero, and a vault with zero deposits is in the state
\* of a vault never used: no depositor entries, count 0, no depositor flag,
\* no requirements, contact or delivery.  So nobody can set requirements on
\* it without depositing again, anybody but the seller can deposit as its
\* first depositor, and after requirements are declared anew the seller can
\* submit a delivery.
C18_VaultReuse ==
    /\ [](/\ \A seller \in Addr :
                deposits[seller] = 0 =>
                   /\ depositorList[seller] = <<>>
                   /\ depositorCount[seller] = 0
                   /\ isExistingDepositor[seller] = {}
                   /\ contractDetails[seller] = NoDetails
          /\ last.ok =>
                \A seller \in Sellers \cap accounts :
                   deposits[seller] = 0 =>
                      \A sender \in accounts :
                         LET q == setContractRequirements(Storage, sender,
                                     seller, "r1", "c1")
                             d == deposit(Storage, sender, seller, 1)
                             q2 == setContractRequirements(d.st, sender,
                                      seller, "r1", "c1")
                             s2 == submitDelivery(q2.st, seller, "h1", 7)
                         IN  /\ ~q.ok
                             /\ sender # seller =>
                                   /\ d.ok
                                   /\ d.st.depositorList[seller] =
                                         <<DepositorInfo(sender, 1)>>
                                   /\ d.st.depositorCount[seller] = 1
                                   /\ q2.ok /\ s2.ok)
    /\ [][(last'.op \in {"release", "refund"} /\ last'.ok) =>
             \E seller \in Sellers :
                deposits[seller] > 0 /\ deposits'[seller] = 0]_vars

\* in a later cycle of the only seller's vault a delivery was recorded
C18_Witness ==
    /\ last.op = "submitDelivery" /\ last.ok
    /\ "sellerB" \notin accounts
    /\ \E id \in TxIds : releasedTransactions[id]
    /\ contractDetails["sellerA"].delivered
    /\ Len(depositorList["sellerA"]) = 2

\* C19 - Settlement is always available to the oracle: in every state where
\* deposits[seller] > 0, a release by the oracle with an unused id goes
\* through when the seller accepts the transfer, and a refund by the oracle
\* goes through when the depositors accept theirs, whatever the contract
\* details.  Stated for the version of ArcFuseEscrow under check.
C19_SettlementAvailable ==
    last.ok =>
       \A seller \in Sellers \cap accounts :
          deposits[seller] > 0 =>
             /\ \A id \in TxIds :
                   ~releasedTransactions[id] =>
                      (IF variant = "guarded"
                       THEN release(Storage, oracle, seller, id, Accepting,
                                    Call)
                       ELSE unguarded_release(Storage, oracle, seller, id,
                                              Accepting, Call)).ok
             /\ LET recvs == [i \in 1..Len(depositorList[seller]) |->
                                 Accepting]
                IN  (IF variant = "guarded"
                     THEN refund(Storage, oracle, seller, recvs, Call)
                     ELSE unguarded_refund(Storage, oracle, seller, recvs,
                                           Call)).ok

\* C20 - Factory creation: a createEscrow call by a caller c creates an
\* escrow at an address not registered before, whose oracle is the
\* factory's oracleAddress and whose owner is c; the address is appended
\* once to allEscrows and once to userEscrows[c]; the other users'
\* registries, the entries registered before and the escrows created before
\* are unchanged.  In every step the registries keep what they held.
C20_FactoryCreation ==
    [][/\ last'.op = "createEscrow" =>
             \E c \in accounts :
                LET a == allEscrows'[Len(allEscrows')]
                IN  /\ \A i \in 1..Len(allEscrows) : allEscrows[i] # a
                    /\ allEscrows' = Append(allEscrows, a)
                    /\ userEscrows' =
                          [userEscrows EXCEPT ![c] = Append(@, a)]
                    /\ a \in DOMAIN escrows' /\ a \notin DOMAIN escrows
                    /\ escrows'[a] =
                          [oracle |-> oracleAddress, owner |-> c]
                    /\ \A b \in DOMAIN escrows : escrows'[b] = escrows[b]
                    /\ oracleAddress' = oracleAddress
       /\ Len(allEscrows') >= Len(allEscrows)
       /\ SubSeq(allEscrows', 1, Len(allEscrows)) = allEscrows
       /\ \A u \in Addr :
             /\ Len(userEscrows'[u]) >= Len(userEscrows[u])
             /\ SubSeq(userEscrows'[u], 1, Len(userEscrows[u]))
                   = userEscrows[u]
      ]_vars

\* three escrows were created by two callers
C20_Witness ==
    /\ last.op = "createEscrow" /\ last.ok
    /\ Len(allEscrows) = 3
    /\ \E c1 \in accounts, c2 \in accounts :
          /\ c1 # oracleAddress /\ c2 # oracleAddress
          /\ Len(userEscrows[c1]) = 2 /\ Len(userEscrows[c2]) = 1
          /\ escrows[userEscrows[c2][1]] =
                [oracle |-> oracleAddress, owner |-> c2]

C22_SystemReplayProtection ==
    last.ok =>
       \A a \in DOMAIN escrowStorage, b \in DOMAIN escrowStorage,
          id \in TxIds :
          (a # b /\ escrowStorage[a].releasedTransactions[id]) =>
             \A sender \in accounts, seller \in SellerArgs :
                \A recv \in Hooks(seller) :
                   ~release(escrowStorage[b], sender, seller, id, recv,
                            Call).ok

\* C23 - Partial release (Escrow.sol): releasePartial(seller, amount, id) by
\* the oracle with 0 < amount <= deposits[seller] and an unused id, to a
\* seller that takes the payment, transfers exactly amount to the seller,
\* reduces deposits[seller] by exactly amount and registers id; with
\* amount = 0 or amount > deposits[seller] it fails, and a failed call
\* leaves storage unchanged.  Whatever the seller's receive hook does, a
\* partial release that goes through pays the seller amount, which is at
\* most the balance recorded for the seller, and leaves a recorded balance
\* that is not negative and not below the old one less amount; the contract
\* always holds at least the recorded balances.  So what is released to a
\* seller never exceeds what was deposited for that seller.
C23_PartialRelease ==
    /\ \A s \in Addr : deposits[s] >= 0
    /\ TotalDeposits(deposits, Addr) <= balance
    /\ last.ok =>
       \A sender \in accounts, seller \in SellerArgs,
          amount \in 0..(MaxBalance + 1), id \in TxIds :
          \A recv \in Hooks(seller) :
             LET st == Storage
                 r == Escrow_releasePartial(st, sender, seller, amount, id,
                                            recv, Call)
                 valid == /\ sender = st.oracle
                          /\ seller # Zero
                          /\ 0 < amount /\ amount <= st.deposits[seller]
                          /\ ~st.releasedTransactions[id]
             IN  /\ (valid /\ recv = Accepting) =>
                       /\ r.ok
                       /\ r.transfers = <<Transfer(seller, amount, TRUE)>>
                       /\ r.st.deposits =
                             [st.deposits EXCEPT ![seller] = @ - amount]
                       /\ r.st.balance = st.balance - amount
                       /\ r.st.releasedTransactions =
                             [st.releasedTransactions EXCEPT ![id] = TRUE]
                 /\ (amount = 0 \/ amount > st.deposits[seller]) => ~r.ok
                 /\ ~r.ok => (r.st = st /\ r.transfers = <<>>)
                 /\ r.ok =>
                       /\ valid
                       /\ r.transfers = <<Transfer(seller, amount, TRUE)>>
                       /\ amount <= st.deposits[seller]
                       /\ r.st.deposits[seller] >= st.deposits[seller] - amount
                       /\ r.st.releasedTransactions[id]

\* two partial releases of 1 out of a balance of 3 have gone through
C23_Witness ==
    /\ last.op = "releasePartial" /\ last.ok
    /\ \E seller \in Sellers :
          /\ last.transfers = <<Transfer(seller, 1, TRUE)>>
          /\ deposits[seller] = 1
          /\ balance = 1
    /\ \A id \in TxIds : releasedTransactions[id]

\* C24 - Withdraw returns funds (Escrow.sol): when the oracle calls
\* withdraw(seller, reason) on a seller with a positive recorded balance,
\* the call goes through, deposits[seller] becomes 0, and the amount leaves
\* the contract: the contract's balance is lower by that amount.
C24_WithdrawReturnsFunds ==
    last.ok =>
       \A seller \in SellerArgs :
          (seller # Zero /\ deposits[seller] > 0) =>
             LET r == Escrow_withdraw(Storage, oracle, seller)
             IN  /\ r.ok
                 /\ r.st.deposits[seller] = 0
                 /\ r.st.balance = balance - deposits[seller]

\* C25 - Oracle rotation (Escrow.sol): updateOracle goes through exactly
\* when the caller is the current owner and the new address is not zero, and
\* then only replaces the oracle; any other call to it fails with storage
\* unchanged.  release, releasePartial and withdraw are rejected from every
\* caller but the current oracle, and a release or a withdrawal of a funded
\* seller by the current oracle is accepted.  The oracle changes in no step
\* but a successful updateOracle, after which the previous oracle is not
\* the oracle any more.
C25_OracleRotation ==
    /\ [](last.ok =>
            LET st == Storage
            IN  /\ \A sender \in OwnerCallers, newOracle \in Addr :
                      LET r == Escrow_updateOracle(st, sender, newOracle)
                      IN  /\ r.ok <=> (sender = owner /\ newOracle # Zero)
                          /\ r.ok => r.st = [st EXCEPT !.oracle = newOracle]
                          /\ ~r.ok => r.st = st
                /\ \A sender \in OwnerCallers, seller \in SellerArgs,
                      id \in TxIds :
                      /\ sender # oracle =>
                            /\ ~Escrow_release(st, sender, seller, id,
                                               Accepting, Call).ok
                            /\ \A amount \in 0..MaxBalance :
                                  ~Escrow_releasePartial(st, sender, seller,
                                      amount, id, Accepting, Call).ok
                            /\ ~Escrow_withdraw(st, sender, seller).ok
                      /\ (/\ sender = oracle
                          /\ seller # Zero
                          /\ deposits[seller] > 0) =>
                            /\ Escrow_withdraw(st, sender, seller).ok
                            /\ ~releasedTransactions[id] =>
                                  /\ Escrow_release(st, sender, seller, id,
                                                    Accepting, Call).ok
                                  /\ Escrow_releasePartial(st, sender,
                                        seller, 1, id, Accepting, Call).ok)
    /\ [][oracle' # oracle =>
             /\ last'.op = "updateOracle" /\ last'.ok
             /\ oracle' # Zero
             /\ \A seller \in SellerArgs, id \in TxIds :
                   ~Escrow_release(Storage', oracle, seller, id, Accepting,
                                   Call).ok
      ]_vars

\* the owner replaced the oracle while a seller was funded, and the new
\* oracle released the funds
C25_Witness ==
    /\ last.op = "release" /\ last.ok
    /\ oracle = "buyer1"
    /\ \E seller \in Sellers : last.transfers = <<Transfer(seller, 2, TRUE)>>

\* the vaults of all sellers but seller are the same in storage s and t
SameOtherVaults(s, t, seller) ==
    \A other \in Addr \ {seller} :
       /\ t.deposits[other] = s.deposits[other]
       /\ t.depositorList[other] = s.depositorList[other]
       /\ t.depositorCount[other] = s.depositorCount[other]
       /\ t.contractDetails[other] = s.contractDetails[other]

\* C26 - Vault independence (guarded ArcFuseEscrow): a deposit,
\* setContractRequirements, submitDelivery, release or refund on seller S,
\* by any caller and with any behaviour of the recipients, leaves the
\* recorded balance, depositor list, depositor count and contract details
\* of every other seller unchanged; deposit, setContractRequirements,
\* submitDelivery and refund leave the replay registry unchanged.
C26_VaultIndependence ==
    last.ok =>
       LET st == Storage
       IN  \A sender \in accounts :
              /\ \A h \in HashArgs \cup {"h2"} :
                    LET r == submitDelivery(st, sender, h, 8)
                    IN  /\ SameOtherVaults(st, r.st, sender)
                        /\ r.st.releasedTransactions
                              = st.releasedTransactions
              /\ \A seller \in SellerArgs :
                    /\ \A value \in Values :
                          LET r == deposit(st, sender, seller, value)
                          IN  /\ SameOtherVaults(st, r.st, seller)
                              /\ r.st.releasedTransactions
                                    = st.releasedTransactions
                    /\ \A ra \in ReqArgs \cup {<<"r3", "c3">>} :
                          LET r == setContractRequirements(st, sender,
                                      seller, ra[1], ra[2])
                          IN  /\ SameOtherVaults(st, r.st, seller)
                              /\ r.st.releasedTransactions
                                    = st.releasedTransactions
                    /\ \A id \in TxIds :
                          \A recv \in RecvChoices(
                                         release(st, sender, seller, id,
                                                 Accepting, PlainCall),
                                         Hooks(seller)) :
                             LET r == release(st, sender, seller, id, recv,
                                              Call)
                             IN  SameOtherVaults(st, r.st, seller)
                    /\ \A recvs \in RecvChoices(
                                       refund(st, sender, seller, AllAccept,
                                              PlainCall),
                                       RefundHooks(
                                          Len(depositorList[seller]),
                                          seller)) :
                          LET r == refund(st, sender, seller, recvs, Call)
                          IN  /\ SameOtherVaults(st, r.st, seller)
                              /\ r.st.releasedTransactions
                                    = st.releasedTransactions

\* one seller's vault was refunded while the other seller's vault holds a
\* deposit and requirements
C26_Witness ==
    /\ last.op = "refund" /\ last.ok
    /\ \E s \in Sellers, t \in Sellers :
          /\ s # t
          /\ Cleared(s)
          /\ last.transfers # <<>>
          /\ deposits[t] > 0
          /\ depositorCount[t] = 1
          /\ contractDetails[t].requirements # ""

\* C27 - Solvency, no stranded value: between transactions of the guarded
\* ArcFuseEscrow the native value held by the contract equals the sum over
\* all sellers of deposits[seller].
C27_Solvency ==
    balance = TotalDeposits(deposits, Addr)

\* C28 - Conservation under callbacks (unguarded ArcFuseEscrow): when the
\* receive hook of a depositor being refunded calls deposit(seller) for the
\* seller under refund, then after the refund has gone through
\* deposits[seller] is the sum of the amounts in depositorList[seller] and
\* depositorCount[seller] is the length of the list.
C28_ConservationUnderCallbacks ==
    last.ok =>
       \A seller \in Sellers \cap accounts :
          LET n == Len(depositorList[seller])
          IN  \A i \in 1..n :
                 LET recvs == [j \in 1..n |->
                                  IF j = i
                                  THEN Reentering(
                                          ReentrantCall("deposit", seller))
                                  ELSE Accepting]
                     r == unguarded_refund(Storage, oracle, seller, recvs,
                                           Call)
                 IN  r.ok =>
                        /\ r.st.deposits[seller]
                              = SumAmounts(r.st.depositorList[seller])
                        /\ r.st.depositorCount[seller]
                              = Len(r.st.depositorList[seller])

\* C29 - Membership index consistency (guarded ArcFuseEscrow): between
\* transactions, for every seller s and address d, isExistingDepositor[s][d]
\* is set exactly when d has an entry in depositorList[s], and d has at
\* most one entry.
C29_MembershipIndex ==
    \A s \in Addr :
       /\ isExistingDepositor[s] = DepositorsOf(depositorList[s])
       /\ \A i \in 1..Len(depositorList[s]), j \in 1..Len(depositorList[s]) :
             depositorList[s][i].depositor = depositorList[s][j].depositor
                => i = j

\* a vault was cleared by a release and has a new depositor since
C29_Witness ==
    /\ last.op = "deposit" /\ last.ok
    /\ releasedTransactions["tx1"]
    /\ \E s \in Sellers :
          /\ Len(depositorList[s]) = 1
          /\ balance = 1
          /\ isExistingDepositor[s] = {depositorList[s][1].depositor}

\* C30 - Counter consistency: between transactions of the version of
\* ArcFuseEscrow under check, for every seller depositorCount[seller] is the
\* length of depositorList[seller], every entry has amount > 0, and
\* deposits[seller] > 0 exactly when the list is not empty.
C30_CounterConsistency ==
    \A seller \in Addr :
       /\ depositorCount[seller] = Len(depositorList[seller])
       /\ \A i \in 1..Len(depositorList[seller]) :
             depositorList[seller][i].amount > 0
       /\ deposits[seller] > 0 <=> depositorList[seller] # <<>>
====
